---------------------------- MODULE Spec2Model ----------------------------
(***************************************************************************)
(* djChat server app: the Server list endpoint (server/views.py) and the   *)
(* save() overrides of Category and Channel (server/models.py).            *)
(*                                                                         *)
(* Strings are sequences of one-character strings, so that int(), lower()  *)
(* and truthiness are computed and not assumed.  A query parameter that is *)
(* not given is the empty sequence: request.query_params.get() yields None *)
(* for it, and the handler only ever tests parameters for truthiness, so   *)
(* None and "" take the same branches.                                     *)
(***************************************************************************)
EXTENDS Integers, Sequences, FiniteSets, TLC

MaxServers == 2
MaxChannels == 2
MaxNameLen == 3
MaxCategories == 2

Users == {1, 2}
Anonymous == 0
CategoryNames == {<<"A">>, <<"B">>}

VARIABLES
    servers,      \* Server table: pk -> [category, members]
    queryset,     \* ServerListViewSet.queryset, the class attribute
    req,          \* the list request under observation
    resp,         \* the response it got
    channels,     \* Channel table: pk -> name
    channelArgs,  \* pk -> the name the Channel was last saved with
    categories,   \* Category table: pk -> [name, icon]
    storage,      \* file storage: set of [path, content]
    instance,     \* the Category instance in memory
    outcome       \* how the last Category.save call ended

listVars == <<servers, queryset, req, resp>>
channelVars == <<channels, channelArgs>>
categoryVars == <<categories, storage, instance, outcome>>
vars == <<servers, queryset, req, resp, channels, channelArgs,
          categories, storage, instance, outcome>>

---------------------------------------------------------------------------
(* Python built-ins used by the code *)

Digits == {"0", "1", "2", "3", "4", "5", "6", "7", "8", "9"}

DigitValue(c) ==
    CASE c = "0" -> 0 [] c = "1" -> 1 [] c = "2" -> 2 [] c = "3" -> 3
      [] c = "4" -> 4 [] c = "5" -> 5 [] c = "6" -> 6 [] c = "7" -> 7
      [] c = "8" -> 8 [] c = "9" -> 9

DigitChar(n) ==
    CASE n = 0 -> "0" [] n = 1 -> "1" [] n = 2 -> "2" [] n = 3 -> "3"
      [] n = 4 -> "4" [] n = 5 -> "5" [] n = 6 -> "6" [] n = 7 -> "7"
      [] n = 8 -> "8" [] n = 9 -> "9"

\* int(s) succeeds; otherwise it raises ValueError
IsIntLiteral(s) == Len(s) > 0 /\ \A i \in 1..Len(s) : s[i] \in Digits

RECURSIVE int(_)
int(s) ==
    IF Len(s) = 0 THEN 0
    ELSE 10 * int(SubSeq(s, 1, Len(s) - 1)) + DigitValue(s[Len(s)])

RECURSIVE str(_)
str(n) == IF n < 10 THEN <<DigitChar(n)>> ELSE str(n \div 10) \o <<DigitChar(n % 10)>>

Truthy(s) == Len(s) > 0

Min(a, b) == IF a <= b THEN a ELSE b

---------------------------------------------------------------------------
(* The ORM objects the handler works on.  A value of self.queryset is a    *)
(* QuerySet (kind "qs"), a Python list (kind "list", what slicing an       *)
(* evaluated QuerySet returns) or, in this model, the exception a step     *)
(* raised (kind "exc").                                                    *)

NoObject ==
    [kind |-> "qs", cats |-> {}, members |-> {}, ids |-> {}, ann |-> FALSE,
     annJoin |-> {}, lim |-> -1, cls |-> FALSE, evaluated |-> FALSE,
     rows |-> <<>>, exc |-> "", detail |-> <<>>]

\* Server.objects.all(): no filter, nothing fetched yet
AllServers == [NoObject EXCEPT !.cls = TRUE]

PyList(rows) == [NoObject EXCEPT !.kind = "list", !.rows = rows]

Raise(exc, detail) == [NoObject EXCEPT !.kind = "exc", !.exc = exc, !.detail = detail]

\* QuerySet._chain(): a new QuerySet object with the same query and no result cache
Clone(qs) == [qs EXCEPT !.cls = FALSE, !.evaluated = FALSE, !.rows = <<>>]

\* the SQL WHERE clause of a QuerySet
Matches(qs, store, pk) ==
    /\ \A c \in qs.cats : store[pk].category = c
    /\ qs.members \subseteq store[pk].members
    /\ \A i \in qs.ids : pk = i

\* Count("members"): counted over the join the query already has on the
\* membership table; a filter(members=u) made before annotate() restricts
\* that join to u's rows.
CountMembers(qs, store, pk) ==
    IF qs.annJoin = {} THEN Cardinality(store[pk].members)
    ELSE Cardinality(store[pk].members \cap qs.annJoin)

Row(qs, store, pk) ==
    [id |-> pk, num_members |-> IF qs.ann THEN CountMembers(qs, store, pk) ELSE -1]

Take(seq, n) == SubSeq(seq, 1, Min(n, Len(seq)))

\* the rows the database returns for the query, in primary-key order
DbRows(qs, store) ==
    LET pks == SelectSeq([i \in 1..Len(store) |-> i], LAMBDA pk : Matches(qs, store, pk))
        all == [k \in 1..Len(pks) |-> Row(qs, store, pks[k])]
    IN IF qs.lim = -1 THEN all ELSE Take(all, qs.lim)

\* iterating the object (QuerySet._fetch_all uses the result cache when set)
Fetch(q, store) ==
    IF q.kind = "list" \/ q.evaluated THEN q.rows ELSE DbRows(q, store)

\* QuerySet.filter(): refused on a sliced query; a list has no filter()
FilterGuard(q) ==
    IF q.kind = "list" THEN Raise("AttributeError", <<>>)
    ELSE IF q.lim # -1 THEN Raise("TypeError", <<>>)
    ELSE Clone(q)

filter_category(q, name) ==
    LET c == FilterGuard(q)
    IN IF c.kind = "exc" THEN c ELSE [c EXCEPT !.cats = @ \cup {name}]

filter_members(q, user_id) ==
    LET c == FilterGuard(q)
    IN IF c.kind = "exc" THEN c ELSE [c EXCEPT !.members = @ \cup {user_id}]

\* filter(id=value): the value goes through int(); ValueError when it is no number
filter_id(q, value) ==
    LET c == FilterGuard(q)
    IN IF c.kind = "exc" THEN c
       ELSE IF ~IsIntLiteral(value) THEN Raise("ValueError", <<>>)
       ELSE [c EXCEPT !.ids = @ \cup {int(value)}]

annotate_num_members(q) ==
    IF q.kind = "list" THEN Raise("AttributeError", <<>>)
    ELSE [Clone(q) EXCEPT !.ann = TRUE, !.annJoin = q.members]

\* q[:n]
slice(q, n) ==
    IF q.kind = "list" \/ q.evaluated THEN PyList(Take(q.rows, n))
    ELSE [Clone(q) EXCEPT !.lim = IF q.lim = -1 THEN n ELSE Min(q.lim, n)]

\* a variant of exists() that never reports an empty result
ExistsAlways(q, store) == TRUE

exists(q, store) == Fetch(q, store) # <<>>

---------------------------------------------------------------------------
(* ServerListViewSet.list *)

TrueStr == <<"t", "r", "u", "e">>

\* the query parameters a request may carry; <<>> is "not given"
CategoryParams == {<<>>, <<"A">>}
QtyParams == {<<>>, <<"1">>, <<"a">>}
ByUserParams == {<<>>, TrueStr}
ByServeridParams == {<<>>, <<"a">>} \cup {str(i) : i \in 1..MaxServers}
WithNumMembersParams == {<<>>, TrueStr}

\* user is request.user_id, Anonymous when request.user is not authenticated;
\* the requesters are the anonymous client and user 1 (user 2 only ever is a
\* member, which is symmetric to user 1 requesting)
Requesters == {Anonymous, 1}

Requests ==
    [user : Requesters, category : CategoryParams, qty : QtyParams,
     by_user : ByUserParams, by_serverid : ByServeridParams,
     with_num_members : WithNumMembersParams]

NoRequest ==
    [user |-> -1, category |-> <<>>, qty |-> <<>>, by_user |-> <<>>,
     by_serverid |-> <<>>, with_num_members |-> <<>>]

NoResponse == [status |-> 0, detail |-> <<>>, data |-> <<>>]

by_user(r) == r.by_user = TrueStr

with_num_members(r) == r.with_num_members = TrueStr

is_authenticated(r) == r.user # Anonymous

\* a variant that asks for authentication for by_user only
AuthenticationRequiredForByUser(r) == by_user(r) /\ ~is_authenticated(r)

AuthenticationRequired(r) ==
    (by_user(r) \/ Truthy(r.by_serverid)) /\ ~is_authenticated(r)

ApplyCategory(q, r) ==
    IF q.kind = "exc" THEN q
    ELSE IF Truthy(r.category) THEN filter_category(q, r.category) ELSE q

ApplyByUser(q, r) ==
    IF q.kind = "exc" THEN q
    ELSE IF by_user(r) THEN filter_members(q, r.user) ELSE q

ApplyWithNumMembers(q, r) ==
    IF q.kind = "exc" THEN q
    ELSE IF with_num_members(r) THEN annotate_num_members(q) ELSE q

\* int(qty) is outside any try block: its ValueError leaves the handler
ApplyQty(q, r) ==
    IF q.kind = "exc" THEN q
    ELSE IF Truthy(r.qty)
         THEN IF IsIntLiteral(r.qty) THEN slice(q, int(r.qty))
              ELSE Raise("ValueError", <<>>)
         ELSE q

NotFoundDetail(by_serverid) == <<"Server with id ">> \o by_serverid \o <<" not found">>

\* the try block: only ValueError is caught
ApplyByServerid(q, store, r) ==
    IF q.kind = "exc" THEN q
    ELSE IF Truthy(r.by_serverid)
         THEN LET f == filter_id(q, r.by_serverid)
              IN IF f.kind = "exc"
                 THEN IF f.exc = "ValueError"
                      THEN Raise("ValidationError", <<"invalid">>)
                      ELSE f
                 ELSE IF ~exists(f, store)
                      THEN Raise("ValidationError", NotFoundDetail(r.by_serverid))
                      ELSE f
         ELSE q

\* self.queryset as the handler first reads it: the view is instantiated per
\* request, so the attribute is found on the class
SelfQueryset(cls_qs) == cls_qs

\* self.queryset when the serializer is built, or the exception raised before
FinalQueryset(cls_qs, store, r) ==
    IF AuthenticationRequired(r) THEN Raise("AuthenticationFailed", <<>>)
    ELSE ApplyByServerid(
           ApplyQty(
             ApplyWithNumMembers(
               ApplyByUser(
                 ApplyCategory(SelfQueryset(cls_qs), r), r), r), r), store, r)

\* ServerSerializer(many=True): num_members is a field of the output only
\* when context["num_members"] is true
ServerSerializer(rows, num_members) ==
    [k \in 1..Len(rows) |->
        [id |-> rows[k].id, has_num_members |-> num_members,
         num_members |-> IF num_members THEN rows[k].num_members ELSE 0]]

\* what the client gets: APIExceptions carry their status, anything else is a 500
Response(final, store, r) ==
    IF final.kind = "exc"
    THEN CASE final.exc = "AuthenticationFailed" ->
                [status |-> 401, detail |-> <<>>, data |-> <<>>]
           [] final.exc = "ValidationError" ->
                [status |-> 400, detail |-> final.detail, data |-> <<>>]
           [] OTHER -> [status |-> 500, detail |-> <<>>, data |-> <<>>]
    ELSE [status |-> 200, detail |-> <<>>,
          data |-> ServerSerializer(Fetch(final, store), with_num_members(r))]

\* a variant in which assigning self.queryset rebinds the attribute for
\* every later request (as a view instance kept across requests would)
ClassQuerysetShared(cls_qs, final, store) ==
    IF final.kind = "qs" THEN [final EXCEPT !.cls = TRUE] ELSE cls_qs

\* The class attribute after the request.  Assignments to self.queryset stay on
\* the instance; but when no step replaced the object, the serializer iterates
\* the class-level QuerySet itself, which keeps what it fetched.
ClassQuerysetAfter(cls_qs, final, store) ==
    IF final.kind = "qs" /\ final.cls /\ ~final.evaluated
    THEN [cls_qs EXCEPT !.evaluated = TRUE, !.rows = DbRows(final, store)]
    ELSE cls_qs

\* One request at a time: req is NoRequest between requests.
Idle == req = NoRequest

\* GET on the list route: the whole handler
List(r) ==
    /\ Idle
    /\ LET final == FinalQueryset(queryset, servers, r)
       IN /\ queryset' = ClassQuerysetAfter(queryset, final, servers)
          /\ resp' = Response(final, servers, r)
    /\ req' = r
    /\ UNCHANGED <<servers, channelVars, categoryVars>>

\* the response is delivered; the view instance is dropped
Return ==
    /\ ~Idle
    /\ req' = NoRequest
    /\ resp' = NoResponse
    /\ UNCHANGED <<servers, queryset, channelVars, categoryVars>>

\* Server.objects.create(category=c)
CreateServer(c) ==
    /\ Idle
    /\ Len(servers) < MaxServers
    /\ servers' = Append(servers, [category |-> c, members |-> {}])
    /\ UNCHANGED <<queryset, req, resp, channelVars, categoryVars>>

\* server.members.add(u)
AddMember(pk, u) ==
    /\ Idle
    /\ pk \in 1..Len(servers)
    /\ u \notin servers[pk].members
    /\ servers' = [servers EXCEPT ![pk].members = @ \cup {u}]
    /\ UNCHANGED <<queryset, req, resp, channelVars, categoryVars>>

---------------------------------------------------------------------------
(* Channel.save *)

NameChars == {"A", "b"}
UpperChars == {"A"}

ChannelNames == UNION {[1..n -> NameChars] : n \in 0..MaxNameLen}

LowerChar(c) == CASE c = "A" -> "a" [] OTHER -> c

\* str.lower()
lower(s) == [i \in 1..Len(s) |-> LowerChar(s[i])]

\* a variant of save() that keeps the name as given
NameAsGiven(name) == name

\* self.name = self.name.lower()
NormalisedName(name) == lower(name)

\* Channel(name=name, ...).save(): the row is inserted
ChannelCreate(name) ==
    /\ Len(channels) < MaxChannels
    /\ channels' = Append(channels, NormalisedName(name))
    /\ channelArgs' = Append(channelArgs, name)
    /\ UNCHANGED <<listVars, categoryVars>>

\* channel = Channel.objects.get(pk=pk); channel.name = name; channel.save()
ChannelUpdate(pk, name) ==
    /\ pk \in 1..Len(channels)
    /\ channels' = [channels EXCEPT ![pk] = NormalisedName(name)]
    /\ channelArgs' = [channelArgs EXCEPT ![pk] = name]
    /\ UNCHANGED <<listVars, categoryVars>>

---------------------------------------------------------------------------
(* Category.save.  A file in storage is [name, content]; the icon of an     *)
(* instance is a FieldFile: none, the stored file of the given name, or an  *)
(* upload that is written to storage when the row is saved.                 *)

Filenames == {"f.png", "g.png"}
Contents == {1, 2}
CategoryFieldNames == {"x", "y"}

NoIcon == [state |-> "none", name |-> <<>>, content |-> 0]
StoredIcon(name) == [state |-> "stored", name |-> name, content |-> 0]
Upload(filename, content) == [state |-> "upload", name |-> <<filename>>, content |-> content]

Uploads == {Upload(f, c) : f \in Filenames, c \in Contents}

NoInstance == [id |-> -1, name |-> "", icon |-> NoIcon]

category_icon_upload_path(id, filename) ==
    <<"category/">> \o str(id) \o <<"/category_icon/", filename>>

\* Storage.get_available_name(): another name when the name is taken
AvailableName(name, files) ==
    IF \E f \in files : f.name = name THEN name \o <<"_alt">> ELSE name

\* the FieldFile of a row's icon column
IconOfRow(row) == IF row.icon = <<>> THEN NoIcon ELSE StoredIcon(row.icon)

\* a variant of the comparison that never sees a change
IconNeverDiffers(existing, incoming) == FALSE

\* existing.icon != self.icon: FieldFile compares by name
IconDiffers(existing, incoming) == existing.name # incoming.name

\* FieldFile.delete(save=False): nothing to do for an empty FieldFile
DeleteFile(icon, files) ==
    IF icon.state = "none" THEN files ELSE {f \in files : f.name # icon.name}

\* models.Model.save() of an existing row: FileField.pre_save writes an
\* upload to storage under upload_to, then the row is updated
SuperSave(inst, rows, files) ==
    LET name == IF inst.icon.state = "upload"
                THEN AvailableName(category_icon_upload_path(inst.id, inst.icon.name[1]), files)
                ELSE inst.icon.name
    IN [rows |-> [rows EXCEPT ![inst.id] = [name |-> inst.name, icon |-> name]],
        files |-> IF inst.icon.state = "upload"
                  THEN files \cup {[name |-> name, content |-> inst.icon.content]}
                  ELSE files,
        instance |-> [inst EXCEPT !.icon = IF name = <<>> THEN NoIcon ELSE StoredIcon(name)],
        outcome |-> "saved"]

\* a variant of save() with super().save() outside the `if`: a new record is
\* inserted under the next primary key
CategorySaveUnconditional(inst, rows, files) ==
    IF inst.id = 0
    THEN SuperSave([inst EXCEPT !.id = Len(rows) + 1],
                   Append(rows, [name |-> inst.name, icon |-> <<>>]), files)
    ELSE IF inst.id \notin 1..Len(rows)
    THEN [rows |-> rows, files |-> files, instance |-> inst, outcome |-> "Http404"]
    ELSE SuperSave(inst, rows,
                   IF IconOfRow(rows[inst.id]).name # inst.icon.name
                   THEN DeleteFile(IconOfRow(rows[inst.id]), files) ELSE files)

\* Category.save(): everything, super().save() included, is inside `if self.id`
CategorySaveResult(inst, rows, files) ==
    IF inst.id = 0
    THEN [rows |-> rows, files |-> files, instance |-> inst, outcome |-> "skipped"]
    ELSE IF inst.id \notin 1..Len(rows)
    THEN [rows |-> rows, files |-> files, instance |-> inst, outcome |-> "Http404"]
    ELSE LET existing == IconOfRow(rows[inst.id])
             deleted == IconDiffers(existing, inst.icon)
         IN [SuperSave(inst, rows, IF deleted THEN DeleteFile(existing, files) ELSE files)
               EXCEPT !.outcome = IF deleted /\ existing.state # "none"
                                  THEN "replaced" ELSE "saved"]

CategorySave ==
    /\ instance # NoInstance
    /\ LET result == CategorySaveResult(instance, categories, storage)
       IN /\ categories' = result.rows
          /\ storage' = result.files
          /\ instance' = result.instance
          /\ outcome' = result.outcome
    /\ UNCHANGED <<listVars, channelVars>>

\* Category(id=id, name=name): id 0 stands for no id
CategoryConstruct(id, name) ==
    /\ instance' = [id |-> id, name |-> name, icon |-> NoIcon]
    /\ outcome' = ""
    /\ UNCHANGED <<categories, storage, listVars, channelVars>>

\* Category.objects.get(id=pk)
CategoryGet(pk) ==
    /\ pk \in 1..Len(categories)
    /\ instance' = [id |-> pk, name |-> categories[pk].name,
                    icon |-> IconOfRow(categories[pk])]
    /\ outcome' = ""
    /\ UNCHANGED <<categories, storage, listVars, channelVars>>

\* instance.name = name
CategorySetName(name) ==
    /\ instance # NoInstance
    /\ instance' = [instance EXCEPT !.name = name]
    /\ outcome' = ""
    /\ UNCHANGED <<categories, storage, listVars, channelVars>>

\* instance.icon = an uploaded file, or None
CategorySetIcon(icon) ==
    /\ instance # NoInstance
    /\ instance' = [instance EXCEPT !.icon = icon]
    /\ outcome' = ""
    /\ UNCHANGED <<categories, storage, listVars, channelVars>>

\* Category.objects.bulk_create(): an insert that does not call save()
CategoryBulkCreate(name) ==
    /\ Len(categories) < MaxCategories
    /\ categories' = Append(categories, [name |-> name, icon |-> <<>>])
    /\ outcome' = ""
    /\ UNCHANGED <<storage, instance, listVars, channelVars>>

---------------------------------------------------------------------------
Init ==
    /\ servers = <<>>
    /\ queryset = AllServers
    /\ req = NoRequest
    /\ resp = NoResponse
    /\ channels = <<>>
    /\ channelArgs = <<>>
    /\ categories = <<>>
    /\ storage = {}
    /\ instance = NoInstance
    /\ outcome = ""

NextList ==
    \/ \E r \in Requests : List(r)
    \/ Return
    \/ \E c \in CategoryNames : CreateServer(c)
    \/ \E pk \in 1..MaxServers, u \in Users : AddMember(pk, u)

NextChannel ==
    \/ \E name \in ChannelNames : ChannelCreate(name)
    \/ \E pk \in 1..MaxChannels, name \in ChannelNames : ChannelUpdate(pk, name)

NextCategory ==
    \/ \E id \in 0..MaxCategories, name \in CategoryFieldNames : CategoryConstruct(id, name)
    \/ \E pk \in 1..MaxCategories : CategoryGet(pk)
    \/ \E name \in CategoryFieldNames : CategorySetName(name)
    \/ \E icon \in {NoIcon} \cup Uploads : CategorySetIcon(icon)
    \/ CategorySave
    \/ \E name \in CategoryFieldNames : CategoryBulkCreate(name)

Next == NextList \/ NextChannel \/ NextCategory

\* the whole application
Spec == Init /\ [][Next]_vars

\* The three components share no state; each is checked on its own.
SpecList == Init /\ [][NextList]_vars

SpecChannel == Init /\ [][NextChannel]_vars

SpecCategory == Init /\ [][NextCategory]_vars

---------------------------------------------------------------------------
(* Properties of the list endpoint.  They are stated on the state right    *)
(* after a request was handled: req is the request, resp its response and  *)
(* servers the table the handler saw (List changes no table).              *)

Responded == ~Idle

\* the Servers that pass the category and by_user filters of r, by the
\* specification's wording, in primary-key order
RemainingIds(r, store) ==
    SelectSeq([i \in 1..Len(store) |-> i],
              LAMBDA pk : /\ (r.category = <<>> \/ store[pk].category = r.category)
                          /\ (r.by_user # TrueStr \/ r.user \in store[pk].members))

DataIds(data) == [k \in 1..Len(data) |-> data[k].id]

InSeq(x, seq) == \E k \in 1..Len(seq) : seq[k] = x

\* C1: a request with by_user = "true" or with by_serverid, made by an
\* unauthenticated requester, is answered with the authentication error and
\* no data, whatever its other parameters are.
C1_AuthenticationFirst ==
    (Responded /\ (req.by_user = TrueStr \/ req.by_serverid # <<>>)
               /\ req.user = Anonymous)
        => (resp.status = 401 /\ resp.data = <<>>)

\* C1 witness: an anonymous request for an id that is no number, with a qty
\* that is no number, was refused with 401.
C1_Witness ==
    /\ Responded
    /\ req.user = Anonymous
    /\ req.by_serverid = <<"a">>
    /\ req.qty = <<"a">>
    /\ req.by_user = <<>>
    /\ resp.status = 401

\* C2: a successful request without by_serverid returns the first qty (all,
\* without qty) of the Servers of the table that pass its filters.
C2_ListIsFilteredTable ==
    (Responded /\ resp.status = 200 /\ req.by_serverid = <<>>)
        => DataIds(resp.data) =
             IF req.qty = <<>> THEN RemainingIds(req, servers)
             ELSE Take(RemainingIds(req, servers), int(req.qty))

\* C3: each returned Server carries num_members exactly when with_num_members
\* is "true", and its value is the size of the Server's membership set.
C3_NumMembersIsMembership ==
    (Responded /\ resp.status = 200)
        => \A k \in 1..Len(resp.data) :
              /\ resp.data[k].has_num_members = (req.with_num_members = TrueStr)
              /\ resp.data[k].has_num_members
                    => /\ resp.data[k].id \in 1..Len(servers)
                       /\ resp.data[k].num_members =
                             Cardinality(servers[resp.data[k].id].members)

\* C4: authenticated, numeric by_serverid, no qty: exactly the Server of that
\* id when it is among the Servers left by the category and by_user filters,
\* else the validation error naming the id and no data.
C4_ByServeridFoundOrError ==
    (Responded /\ req.user # Anonymous /\ IsIntLiteral(req.by_serverid)
               /\ req.qty = <<>>)
        => IF InSeq(int(req.by_serverid), RemainingIds(req, servers))
           THEN /\ resp.status = 200
                /\ DataIds(resp.data) = <<int(req.by_serverid)>>
           ELSE /\ resp.status = 400
                /\ resp.detail = <<"Server with id ">> \o req.by_serverid \o <<" not found">>
                /\ resp.data = <<>>

\* C4 witness: Server 1 exists but is of another category than the one
\* asked for, and the request for id 1 got the validation error.
C4_Witness ==
    /\ Responded
    /\ req.user # Anonymous
    /\ req.by_serverid = <<"1">>
    /\ req.qty = <<>>
    /\ req.category = <<"A">>
    /\ Len(servers) >= 1
    /\ servers[1].category = <<"B">>
    /\ resp.status = 400

\* C5: with qty and by_serverid both given (authenticated), the Server of
\* the requested id is returned when it lies within the first qty Servers
\* left by the filters, and "not found" is raised when it lies beyond them.
C5_QtyBeforeByServerid ==
    (Responded /\ req.user # Anonymous /\ IsIntLiteral(req.qty)
               /\ IsIntLiteral(req.by_serverid)
               /\ InSeq(int(req.by_serverid), RemainingIds(req, servers)))
        => IF InSeq(int(req.by_serverid), Take(RemainingIds(req, servers), int(req.qty)))
           THEN /\ resp.status = 200
                /\ DataIds(resp.data) = <<int(req.by_serverid)>>
           ELSE /\ resp.status = 400
                /\ resp.detail = <<"Server with id ">> \o req.by_serverid \o <<" not found">>

\* C6: handling a list request changes the outcome of no list request: as
\* long as the table is unchanged, every request gets after the step the
\* response it would have got before it.
C6_RequestsDoNotInterfere ==
    [][servers' = servers =>
         \/ queryset' = queryset
         \/ \A r \in Requests :
               Response(FinalQueryset(queryset', servers', r), servers', r)
                 = Response(FinalQueryset(queryset, servers, r), servers, r)]_vars

\* C6 witness: a filtered request was answered with data after the class-level
\* queryset had been evaluated by an earlier, unfiltered request.
C6_Witness ==
    /\ Responded
    /\ queryset.evaluated
    /\ Len(queryset.rows) > 0
    /\ req.category # <<>>
    /\ req.qty # <<>>
    /\ resp.status = 200
    /\ Len(resp.data) > 0

\* C7: authenticated: a by_serverid that is no number gives the validation
\* error "invalid" when qty is absent or numeric; a qty that is no number
\* gives a 500, also when by_serverid is given.
C7_ParseFailures ==
    (Responded /\ req.user # Anonymous)
        => /\ (req.by_serverid # <<>> /\ ~IsIntLiteral(req.by_serverid)
                 /\ (req.qty = <<>> \/ IsIntLiteral(req.qty)))
                 => (resp.status = 400 /\ resp.detail = <<"invalid">>)
           /\ (req.qty # <<>> /\ ~IsIntLiteral(req.qty))
                 => resp.status = 500

---------------------------------------------------------------------------
(* Properties of the model save() overrides *)

\* C8: every stored Channel name is the lowercase of the name the Channel
\* was last saved with, character by character, and holds no uppercase
\* character; every save call has its row.
C8_ChannelNamesLowercase ==
    /\ Len(channels) = Len(channelArgs)
    /\ \A pk \in 1..Len(channels) :
          /\ Len(channels[pk]) = Len(channelArgs[pk])
          /\ \A i \in 1..Len(channels[pk]) :
                /\ channels[pk][i] = LowerChar(channelArgs[pk][i])
                /\ channels[pk][i] \notin UpperChars

\* C8 witness: a Channel saved with a mixed-case name is stored in lowercase,
\* next to one saved with a lowercase name.
C8_Witness ==
    /\ Len(channels) = 2
    /\ channelArgs[1] = <<"A", "b", "A">>
    /\ channels[1] = <<"a", "b", "a">>
    /\ channelArgs[2] = <<"b">>

\* a step that is a Category.save call (every other step clears outcome)
SaveStep == outcome' # ""

\* C9: when an existing Category that has an icon is saved with an uploaded
\* file as its icon, the file it referenced before is gone from storage
\* (unless the upload is the same file), the upload is in storage and the
\* row holds the instance's fields; and a file leaves storage only in a save
\* of an existing Category whose incoming icon differs from the stored one,
\* and then it is the file the row referenced.
C9_IconReplacement ==
    [][/\ (SaveStep /\ instance.id \in 1..Len(categories)
                    /\ instance.icon.state = "upload"
                    /\ categories[instance.id].icon # <<>>)
            => LET old == {f \in storage : f.name = categories[instance.id].icon}
                   new == [name |-> category_icon_upload_path(instance.id, instance.icon.name[1]),
                           content |-> instance.icon.content]
               IN /\ \A f \in old : f # new => f \notin storage'
                  /\ new \in storage'
                  /\ categories'[instance.id] = [name |-> instance.name, icon |-> new.name]
       /\ (storage \ storage' # {})
            => /\ SaveStep
               /\ instance.id \in 1..Len(categories)
               /\ categories[instance.id].icon # instance.icon.name
               /\ \A f \in storage \ storage' : f.name = categories[instance.id].icon
      ]_vars

\* C9 witness: a save deleted the old icon file of Category 1, and the file
\* uploaded in its place is the only file in storage.
C9_Witness ==
    /\ outcome = "replaced"
    /\ instance.id = 1
    /\ instance.icon.state = "stored"
    /\ categories[1].icon = instance.icon.name
    /\ \E c \in Contents : storage = {[name |-> instance.icon.name, content |-> c]}

\* C10: a save of a Category without id changes neither the table nor the
\* storage and leaves the instance without id; and no save call adds a row.
C10_NewCategoryNotPersisted ==
    [][SaveStep =>
         /\ Len(categories') = Len(categories)
         /\ instance.id = 0 =>
               /\ categories' = categories
               /\ storage' = storage
               /\ instance'.id = 0]_vars

\* C10 witness: a new Category with a name and an uploaded icon was saved,
\* and the table and the storage are still empty.
C10_Witness ==
    /\ outcome = "skipped"
    /\ instance.id = 0
    /\ instance.icon.state = "upload"
    /\ categories = <<>>
    /\ storage = {}

====
